---- MODULE Spec2Model ----
(***************************************************************************)
(* A model of os2mo_dar_client.dar_client.AsyncDARClient: the session      *)
(* lifecycle (aopen / aclose / context manager), the health probe, the     *)
(* single-identifier lookup with category fallback (dar_fetch_single) and  *)
(* the chunked multi-identifier lookup with category fallback (dar_fetch). *)
(*                                                                         *)
(* One caller drives the client, one awaited call at a time.  Every await  *)
(* on the network is a separate step: a call issues its request(s), and a  *)
(* later step delivers one response and runs the coroutine up to its next  *)
(* await (or to its return / raise).  The remote service is the one of     *)
(* src/tests/utils.py, extended with one lookup table per category, plus   *)
(* the failures a request can meet (other status, transport, timeout).     *)
(*                                                                         *)
(* The identifiers of one dar_fetch call are all uuid.UUID objects or all  *)
(* strings.  When a coroutine of a chunked fetch raises, gather re-raises  *)
(* at once and the other coroutines stay in flight; they are counted in    *)
(* `abandoned` until their response arrives or the session is closed.      *)
(***************************************************************************)
EXTENDS Integers, Sequences, FiniteSets, TLC

(***************************************************************************)
(* Bounds of the model.                                                    *)
(***************************************************************************)
\* identifiers 1..NumIds exist in the world
NumIds == 2
\* chunk_size arguments range over 1..MaxChunkSize
MaxChunkSize == 2
\* a closed client is opened at most MaxSessions times
MaxSessions == 2
\* the fetch that loads the connector is given identifiers 1..PoolIds
PoolIds == 11
\* a new network call starts only while at most MaxAbandoned requests of
\* earlier, failed calls are still in flight
MaxAbandoned == 0

(***************************************************************************)
(* Values.                                                                 *)
(***************************************************************************)
\* Python's None, as the value of self._session
None == 0

Ids == 1..NumIds

\* An identifier is held either as a uuid.UUID object or as its canonical
\* string; the two never compare equal in Python.
UUIDOf(n) == <<"UUID", n>>
StrOf(n) == <<"str", n>>
\* str(x): the canonical string of a UUID object, a string unchanged
str(x) == <<"str", x[2]>>
\* uuid.UUID(s): parse a string
UUID(s) == <<"UUID", s[2]>>

ADDRESS == "adresser"
ACCESS_ADDRESS == "adgangsadresser"
HISTORIC_ADDRESS == "historik/adresser"
HISTORIC_ACCESS_ADDRESS == "historik/adgangsadresser"

ALL_ADDRESS_TYPES ==
    <<ADDRESS, ACCESS_ADDRESS, HISTORIC_ADDRESS, HISTORIC_ACCESS_ADDRESS>>

AddressType == {ALL_ADDRESS_TYPES[i] : i \in DOMAIN ALL_ADDRESS_TYPES}

\* An Optional[List[AddressType]] argument: absent (None) or a list.
NoneArg == [none |-> TRUE, list |-> <<>>]
ListArg(l) == [none |-> FALSE, list |-> l]

\* `arg or default`: None and the empty list are both falsy
OrDefault(arg, default) ==
    IF arg.none \/ arg.list = <<>> THEN default ELSE arg.list

\* The category arguments the caller passes.
AddrtypesArgs ==
    { NoneArg, ListArg(<<>>), ListArg(<<HISTORIC_ADDRESS>>),
      ListArg(<<ACCESS_ADDRESS, ADDRESS>>) }

\* In which categories one identifier has a record.
Presences ==
    << {}, {ADDRESS}, {HISTORIC_ADDRESS}, {ACCESS_ADDRESS, HISTORIC_ACCESS_ADDRESS} >>

Range(s) == {s[i] : i \in DOMAIN s}

Min(a, b) == IF a <= b THEN a ELSE b


\* all orders in which a set can be iterated
Orderings(S) ==
    { s \in [1..Cardinality(S) -> S] : \A i, j \in DOMAIN s : s[i] = s[j] => i = j }

(***************************************************************************)
(* Dictionaries are functions; keys are the function's domain.             *)
(***************************************************************************)
EmptyDict == <<>>

\* a chain of maps in which a key's value is taken from the last map that has it
ChainMapDict_last_wins(maps) ==
    [ k \in UNION { DOMAIN maps[i] : i \in DOMAIN maps } |->
        LET last == CHOOSE i \in DOMAIN maps :
                        /\ k \in DOMAIN maps[i]
                        /\ \A j \in DOMAIN maps : k \in DOMAIN maps[j] => j <= i
        IN  maps[last][k] ]

\* dict(ChainMap(*maps)): a key's value is taken from the first map that has it
ChainMapDict(maps) ==
    [ k \in UNION { DOMAIN maps[i] : i \in DOMAIN maps } |->
        LET first == CHOOSE i \in DOMAIN maps :
                        /\ k \in DOMAIN maps[i]
                        /\ \A j \in DOMAIN maps : k \in DOMAIN maps[j] => i <= j
        IN  maps[first][k] ]

\* set.union(*sets)
SetUnion(sets) == UNION { sets[i] : i \in DOMAIN sets }

\* chunked with every chunk reaching one item into the next
chunked_overlapping(iterable, n) ==
    [ i \in 1..((Len(iterable) + n - 1) \div n) |->
        SubSeq(iterable, (i - 1) * n + 1, Min(i * n + 1, Len(iterable))) ]

\* more_itertools.chunked(iterable, n): consecutive lists of n items, the last
\* one shorter when n does not divide the length
chunked(iterable, n) ==
    [ i \in 1..((Len(iterable) + n - 1) \div n) |->
        SubSeq(iterable, (i - 1) * n + 1, Min(i * n, Len(iterable))) ]

(***************************************************************************)
(* Exceptions.                                                             *)
(***************************************************************************)
Exc(type, status, msg) == [type |-> type, status |-> status, msg |-> msg]

SessionNotSet == Exc("ValueError", 0, "Session not set")
NotFound == Exc("ValueError", 0, "Not found")
ClientResponseError(status) == Exc("ClientResponseError", status, "")
ClientConnectionError == Exc("ClientConnectionError", 0, "")
TimeoutError == Exc("TimeoutError", 0, "")

\* aiohttp.ClientError and its subclasses
IsClientError(e) == e.type \in {"ClientResponseError", "ClientConnectionError"}

(***************************************************************************)
(* The remote service and the transport.                                   *)
(***************************************************************************)
\* the record the service holds for an identifier in a category; its "id"
\* field is a JSON string
AddressReply(addrtype, uuid) == [id |-> str(uuid), type |-> addrtype]

\* GET /{addrtype}?id=a|b|...: the records of the identifiers that exist
address_endpoint(lookup, addrtype, ids) ==
    LET uuids == { UUID(s) : s \in ids }
    IN  [ status |-> 200,
          body |-> { AddressReply(addrtype, u) : u \in uuids \cap lookup[addrtype] } ]

\* GET /{addrtype}/{id}: the record, or 404
single_address_endpoint(lookup, addrtype, ids) ==
    LET uuid == UUID(CHOOSE s \in ids : TRUE)
    IN  IF uuid \notin lookup[addrtype]
        THEN [ status |-> 404, body |-> {} ]
        ELSE [ status |-> 200, body |-> { AddressReply(addrtype, uuid) } ]

\* GET /autocomplete
autocomplete == [ status |-> 200, body |-> {} ]

\* What can become of a request.
Outcomes == { "served", "error_status", "transport_error", "timeout" }

\* session.get(...): the response, or the exception the transport raises
Get(lookup, req, outcome) ==
    CASE outcome = "transport_error" -> [ exc |-> {ClientConnectionError}, status |-> 0, body |-> {} ]
      [] outcome = "timeout" -> [ exc |-> {TimeoutError}, status |-> 0, body |-> {} ]
      [] outcome = "error_status" -> [ exc |-> {}, status |-> 500, body |-> {} ]
      [] OTHER ->
            LET served ==
                    CASE req.kind = "batch" -> address_endpoint(lookup, req.addrtype, req.ids)
                      [] req.kind = "single" -> single_address_endpoint(lookup, req.addrtype, req.ids)
                      [] OTHER -> autocomplete
            IN  [ exc |-> {}, status |-> served.status, body |-> served.body ]

\* response.raise_for_status(): the exception raised, if any
raise_for_status(response) ==
    IF response.status >= 400 THEN {ClientResponseError(response.status)} ELSE {}

(***************************************************************************)
(* _dar_fetch_non_chunked, after the response has arrived.                 *)
(***************************************************************************)
\* result = {addr["id"]: addr for addr in body}
NonChunkedResult(body) ==
    [ k \in { addr.id : addr \in body } |-> CHOOSE addr \in body : addr.id = k ]

\* found_uuids = set(map(itemgetter("id"), body)); missing = set(uuids) - found_uuids
NonChunkedMissing(uuids, body) ==
    LET found_uuids == { addr.id : addr \in body }
    IN  uuids \ found_uuids

(***************************************************************************)
(* State.                                                                  *)
(***************************************************************************)
VARIABLES
    dar_lookup,       \* the service's data: category -> identifiers with a record
    session,          \* self._session: None, or the identity of the session object
    sessions_created, \* how many session objects aopen has created
    inflight,         \* requests of the running call awaiting their response
    abandoned,        \* requests still in flight whose call has already raised
    waiting,          \* the requests of inflight that wait for a free connection
    abandoned_waiting,\* how many of the abandoned requests wait for a connection
    pc,               \* "idle", the call that is suspended on the network, or "done"
    call,             \* the running (or last) call and its arguments
    addrtypes,        \* local addrtypes of dar_fetch / dar_fetch_single
    idx,              \* position of the for loop in addrtypes
    uuids,            \* local uuids of dar_fetch
    combined_result,  \* local combined_result of dar_fetch: the maps of the ChainMap
    tasks,            \* the _dar_fetch_non_chunked coroutines of the current category
    issued,           \* history: the requests the call has issued, one entry per
                      \* await: the category, the identifiers sent, the requests
    hooks,            \* history: _address_fetched invocations of the call, with counts
    ret,              \* how the last call ended: returned value or raised exception
    warned,           \* history: warnings.warn calls of the last call
    last_outcome,     \* history: what became of the request answered last
    last_lifecycle,   \* history: the last lifecycle call: "none", "open" or "close"
    again             \* history: the call is a dar_fetch of the missing set that
                      \* the dar_fetch before it returned, with the same arguments

vars == << dar_lookup, session, sessions_created, inflight, abandoned, pc, call,
           addrtypes, idx, uuids, combined_result, tasks, issued, hooks, ret, warned,
           last_outcome, last_lifecycle, again, waiting, abandoned_waiting >>

NoRet == [kind |-> "none", exc |-> {}, value |-> {}]
Returned(v) == [kind |-> "return", exc |-> {}, value |-> v]
Raised(e) == [kind |-> "raise", exc |-> {e}, value |-> {}]
NoHooks == <<>>

\* The tables of the service: every identifier has one of the Presences.  The
\* calls range over all identifier sets, so of the tables that differ only by
\* a renaming of the identifiers one is kept (presences in ascending order).
Lookups ==
    { [ t \in AddressType |-> { UUIDOf(n) : n \in { m \in Ids : t \in Presences[p[m]] } } ] :
        p \in { q \in [Ids -> DOMAIN Presences] :
                  \A m, n \in Ids : m <= n => q[m] <= q[n] } }

AttributeError(name) == Exc("AttributeError", 0, name)

\* the attributes __init__ has assigned when it reaches line 51
InitAssigned == { "_session", "_baseurl" }

\* the attributes the class of the object may define itself: AsyncDARClient
\* and DARClient define neither; a subclass can define both
ClassAttributes == { {}, { "_retrying_stop", "_retrying_wait" } }

\* self.<name> read: the exception it raises, if any
ReadAttribute(defined, name) ==
    IF name \in defined THEN {} ELSE { AttributeError(name) }

\* how __init__ ends: lines 51 and 52 read self._retrying_stop and
\* self._retrying_wait, which __init__ has not assigned
ClientInit(class_attributes) ==
    LET stop == ReadAttribute(InitAssigned \cup class_attributes, "_retrying_stop")
        wait == ReadAttribute(InitAssigned \cup class_attributes, "_retrying_wait")
    IN  IF stop # {} THEN Raised(CHOOSE e \in stop : TRUE)
        ELSE IF wait # {} THEN Raised(CHOOSE e \in wait : TRUE)
        ELSE Returned({})

\* the client as __init__ leaves it: self._session = None, and no client to
\* call when __init__ has raised
InitClient(lookups) ==
    /\ dar_lookup \in lookups
    /\ session = None
    /\ sessions_created = 0
    /\ inflight = {}
    /\ abandoned = 0
    /\ waiting = {}
    /\ abandoned_waiting = 0
    /\ \E class_attributes \in ClassAttributes :
         /\ call = [op |-> "__init__", class_attributes |-> class_attributes]
         /\ ret = ClientInit(class_attributes)
         /\ pc = IF ClientInit(class_attributes).kind = "raise" THEN "failed" ELSE "idle"
    /\ addrtypes = <<>>
    /\ idx = 0
    /\ uuids = {}
    /\ combined_result = <<>>
    /\ tasks = <<>>
    /\ issued = <<>>
    /\ hooks = NoHooks
    /\ warned = 0
    /\ last_outcome = "none"
    /\ last_lifecycle = "none"
    /\ again = FALSE

Init == InitClient(Lookups)

\* the locals of a call that has ended
ClearLocals ==
    /\ idx' = 0
    /\ uuids' = {}
    /\ combined_result' = <<>>
    /\ tasks' = <<>>

\* a call ends (returns or raises) having issued `iss` and invoked `hk`; the
\* requests it leaves behind stay in flight with nobody awaiting them
\* `left_waiting` of the `left` requests wait for a free connection
EndCallLeaving(r, iss, hk, left, left_waiting) ==
    /\ pc' = "done"
    /\ ret' = r
    /\ issued' = iss
    /\ hooks' = hk
    /\ inflight' = {}
    /\ abandoned' = abandoned + left
    /\ waiting' = {}
    /\ abandoned_waiting' = abandoned_waiting + left_waiting
    /\ ClearLocals

EndCall(r, iss, hk, left) == EndCallLeaving(r, iss, hk, left, 0)

(***************************************************************************)
(* The connector of the session: aopen creates it with                     *)
(* aiohttp.TCPConnector(limit=10).  A request holds one of its connections *)
(* from the moment it is sent until its `async with` block is left; when   *)
(* no connection is free, or requests already wait for one, the request    *)
(* waits until a connection is handed to it.                               *)
(***************************************************************************)
ConnectorLimit == 10

\* the connections that requests hold
InUse == Cardinality(inflight \ waiting) + (abandoned - abandoned_waiting)

\* a connector that always has connections to hand out
available_connections_unlimited(in_use) == ConnectorLimit * ConnectorLimit

\* the free connections of a connector of which in_use are held
available_connections(in_use) == ConnectorLimit - in_use

\* how many of the requests a call sends at once get a connection at once:
\* none while older requests wait, else as many as there are free connections
ConnectedAtOnce ==
    IF abandoned_waiting > 0 THEN 0
    ELSE IF available_connections(abandoned) < 0 THEN 0
    ELSE available_connections(abandoned)

(***************************************************************************)
(* Session lifecycle.                                                      *)
(***************************************************************************)
\* _get_session: the exception it raises, if any
get_session == IF session = None THEN { SessionNotSet } ELSE {}

\* aopen without the return after its warning
aopen_replace ==
    /\ warned' = IF session # None THEN 1 ELSE 0
    /\ session' = sessions_created + 1
    /\ sessions_created' = sessions_created + 1

\* aopen's effect on (session, sessions_created, warned)
aopen ==
    IF session # None
    THEN /\ warned' = 1
         /\ UNCHANGED << session, sessions_created >>
    ELSE /\ warned' = 0
         /\ session' = sessions_created + 1
         /\ sessions_created' = sessions_created + 1

\* aclose without its assignment of None to the session
aclose_keeps_session ==
    /\ warned' = IF session = None THEN 1 ELSE 0
    /\ UNCHANGED << session, abandoned, abandoned_waiting >>

\* aclose's effect on (session, abandoned, warned)
aclose ==
    IF session = None
    THEN /\ warned' = 1
         /\ UNCHANGED << session, abandoned, abandoned_waiting >>
    ELSE /\ warned' = 0
         /\ session' = None
         /\ abandoned' = 0
         /\ abandoned_waiting' = 0

LifecycleFrame(c, value, kind) ==
    /\ pc = "idle"
    /\ call' = c
    /\ ret' = Returned(value)
    /\ issued' = <<>>
    /\ hooks' = NoHooks
    /\ addrtypes' = <<>>
    /\ last_lifecycle' = kind
    /\ again' = FALSE
    /\ UNCHANGED << dar_lookup, inflight, waiting, pc, idx, uuids, combined_result,
                    tasks, last_outcome >>

Aopen ==
    /\ session = None => sessions_created < MaxSessions
    /\ LifecycleFrame([op |-> "aopen"], {}, "open")
    /\ aopen
    /\ UNCHANGED << abandoned, abandoned_waiting >>

Aclose ==
    /\ LifecycleFrame([op |-> "aclose"], {}, "close")
    /\ aclose
    /\ UNCHANGED sessions_created

\* __aenter__: await self.aopen(); return self
Aenter ==
    /\ session = None => sessions_created < MaxSessions
    /\ LifecycleFrame([op |-> "__aenter__"], "self", "open")
    /\ aopen
    /\ UNCHANGED << abandoned, abandoned_waiting >>

\* what the with statement hands to __aexit__: nothing, or the exception the
\* body of the block has raised
BodyExceptions == { {}, { Exc("RuntimeError", 0, "raised in the with block") } }

\* the value __aexit__ returns; a false value makes the with statement
\* re-raise the exception of the body
aexit_return(exc) == FALSE

\* __aexit__: await self.aclose(); return False
Aexit ==
    \E exc \in BodyExceptions :
        /\ LifecycleFrame([op |-> "__aexit__", exc |-> exc], aexit_return(exc), "close")
        /\ aclose
        /\ UNCHANGED sessions_created

(***************************************************************************)
(* Requests.                                                               *)
(***************************************************************************)
Request(kind, addrtype, ids, task) ==
    [kind |-> kind, addrtype |-> addrtype, ids |-> ids, task |-> task]

\* an entry of the history: `count` requests to `addrtype` that carry `ids`
Issued(kind, addrtype, ids, count) ==
    [kind |-> kind, addrtype |-> addrtype, ids |-> ids, count |-> count]

\* what `async with session.get(...) as response: response.raise_for_status()`
\* raises for a request that ends with `outcome`: the transport's exception,
\* else the status' exception, else nothing
FetchExc(response) ==
    IF response.exc # {} THEN response.exc ELSE raise_for_status(response)

\* a network call starts
StartFrame ==
    /\ pc = "idle"
    /\ again' = FALSE
    /\ abandoned <= MaxAbandoned
    /\ warned' = 0
    /\ last_outcome' = "none"
    /\ UNCHANGED << dar_lookup, session, sessions_created, last_lifecycle >>

\* a suspended call runs on, `outcome` being what became of the request it awaited
ResumeFrame(outcome) ==
    /\ last_outcome' = outcome
    /\ UNCHANGED << dar_lookup, session, sessions_created, call, addrtypes, warned,
                    last_lifecycle, again >>

(***************************************************************************)
(* healthcheck                                                             *)
(***************************************************************************)
HealthRequest == Request("healthcheck", "autocomplete", {}, 1)

\* healthcheck catching every exception
HealthcheckExcept_all(exc) == { FALSE }

\* healthcheck without its except clause for TimeoutError
HealthcheckExcept_client_only(exc) == IF IsClientError(exc) THEN { FALSE } ELSE {}

\* the except clauses of healthcheck: the value returned for a caught
\* exception; the empty set when the exception is not caught
HealthcheckExcept(exc) ==
    IF IsClientError(exc) \/ exc = TimeoutError THEN { FALSE } ELSE {}

\* healthcheck ends with exception exc raised inside its try block
HealthcheckRaised(exc, iss) ==
    IF HealthcheckExcept(exc) = {}
    THEN EndCall(Raised(exc), iss, NoHooks, 0)
    ELSE EndCall(Returned(CHOOSE b \in HealthcheckExcept(exc) : TRUE), iss, NoHooks, 0)

Healthcheck ==
    /\ StartFrame
    /\ call' = [op |-> "healthcheck"]
    /\ addrtypes' = <<>>
    /\ IF get_session # {}
       THEN HealthcheckRaised(CHOOSE e \in get_session : TRUE, <<>>)
       ELSE /\ pc' = "healthcheck"
            /\ inflight' = { HealthRequest }
            /\ issued' = << Issued("healthcheck", "autocomplete", {}, 1) >>
            /\ hooks' = NoHooks
            /\ ret' = NoRet
            /\ waiting' = {}
            /\ UNCHANGED << abandoned, abandoned_waiting, idx, uuids, combined_result,
                            tasks >>

HealthcheckResponse ==
    /\ pc = "healthcheck"
    /\ \E req \in inflight, outcome \in Outcomes :
         LET response == Get(dar_lookup, req, outcome)
         IN  /\ ResumeFrame(outcome)
             /\ IF response.exc # {}
                THEN HealthcheckRaised(CHOOSE e \in response.exc : TRUE, issued)
                ELSE EndCall(Returned(response.status = 200), issued, NoHooks, 0)

(***************************************************************************)
(* dar_fetch_single                                                        *)
(***************************************************************************)
\* the for loop of dar_fetch_single from position i, up to its next await
SingleLoop(at, i, uuid, iss) ==
    IF i > Len(at)
    THEN EndCall(Raised(NotFound), iss, NoHooks, 0)
    ELSE IF get_session # {}
    THEN EndCall(Raised(CHOOSE e \in get_session : TRUE), iss, NoHooks, 0)
    ELSE LET req == Request("single", at[i], { str(uuid) }, 1)
         IN  /\ pc' = "dar_fetch_single"
             /\ idx' = i
             /\ inflight' = { req }
             /\ issued' = Append(iss, Issued("single", at[i], req.ids, 1))
             /\ hooks' = NoHooks
             /\ ret' = NoRet
             /\ waiting' = {}
             /\ UNCHANGED << abandoned, abandoned_waiting, uuids, combined_result,
                             tasks >>

DarFetchSingle ==
    /\ StartFrame
    /\ \E uuid \in { UUIDOf(n) : n \in Ids } \cup { StrOf(n) : n \in Ids },
          arg \in AddrtypesArgs :
         LET at == OrDefault(arg, ALL_ADDRESS_TYPES)
         IN  /\ call' = [op |-> "dar_fetch_single", uuid |-> uuid, addrtypes |-> arg]
             /\ addrtypes' = at
             /\ SingleLoop(at, 1, uuid, <<>>)

\* the except clause re-raising every exception
SingleExcept_reraise(exc) == "raise"

\* the except clause continuing on every ClientResponseError
SingleExcept_any_status(exc) ==
    IF exc.type = "ClientResponseError" THEN "continue" ELSE "raise"

\* what the except clause of dar_fetch_single does with an exception of
\* _dar_fetch_single: "continue" or "raise"
SingleExcept(exc) ==
    IF exc.type = "ClientResponseError" /\ exc.status = 404 THEN "continue" ELSE "raise"

\* dar_fetch_single returning without the hook
SingleHooks_skipped(uuid, payload) == NoHooks

\* await self._address_fetched(uuid, payload): the invocations of the hook
SingleHooks(uuid, payload) == [ item \in { << uuid, payload >> } |-> 1 ]

DarFetchSingleResponse ==
    /\ pc = "dar_fetch_single"
    /\ \E req \in inflight, outcome \in Outcomes :
         LET response == Get(dar_lookup, req, outcome)
             excs == FetchExc(response)
         IN  /\ ResumeFrame(outcome)
             /\ IF excs = {}
                THEN LET payload == CHOOSE addr \in response.body : TRUE
                     IN  EndCall(Returned(payload), issued,
                                 SingleHooks(call.uuid, payload), 0)
                ELSE LET exc == CHOOSE e \in excs : TRUE
                     IN  IF SingleExcept(exc) = "continue"
                         THEN SingleLoop(addrtypes, idx + 1, call.uuid, issued)
                         ELSE EndCall(Raised(exc), issued, NoHooks, 0)

(***************************************************************************)
(* dar_fetch                                                               *)
(***************************************************************************)
\* a _dar_fetch_non_chunked coroutine: its uuids, and what it returned
Task(chunk) == [uuids |-> chunk, done |-> FALSE, result |-> EmptyDict, missing |-> {}]

\* _dar_fetch: one coroutine for the whole set if it fits a chunk, else one per
\* chunk of the set taken in iteration order `order`
FetchTasks(order, chunk_size) ==
    IF Len(order) <= chunk_size
    THEN << Task(Range(order)) >>
    ELSE LET uuid_chunks == chunked(order, chunk_size)
         IN  [ i \in DOMAIN uuid_chunks |-> Task(Range(uuid_chunks[i])) ]

\* the request of task i: "id": "|".join(map(str, uuids))
BatchRequest(addrtype, t, i) ==
    Request("batch", addrtype, { str(u) : u \in t[i].uuids }, i)

\* a failed request taken for an empty body
NonChunkedExc_swallowed(response) == {}

\* the exception with which a _dar_fetch_non_chunked coroutine ends, if any
NonChunkedExc(response) == FetchExc(response)

\* _dar_fetch_chunked: combined_result = dict(ChainMap(*result_dicts))
ChunkedResult(t) == ChainMapDict([ i \in DOMAIN t |-> t[i].result ])

\* _dar_fetch_chunked: combined_missing = set.union(*missing_sets)
ChunkedMissing(t) == SetUnion([ i \in DOMAIN t |-> t[i].missing ])

\* what _dar_fetch returns for num_uuids > 0 once every coroutine has
\* returned: the lone coroutine's pair, or the merge of _dar_fetch_chunked
FetchResult(num_uuids, chunk_size, t) ==
    IF num_uuids <= chunk_size
    THEN << t[1].result, t[1].missing >>
    ELSE << ChunkedResult(t), ChunkedMissing(t) >>

\* the hook invocations of gather(*starmap(self._address_fetched, d.items()))
HooksOf(d) == [ item \in { << k, d[k] >> : k \in DOMAIN d } |-> 1 ]

\* dar_fetch after its for loop: final_result, the hook, the return
Finish(comb, missing, iss) ==
    LET final_result == ChainMapDict(comb)
    IN  EndCall(Returned([result |-> final_result, missing |-> missing]),
                iss, HooksOf(final_result), 0)

\* _dar_fetch without its short-circuit
ShortCircuit_never(num_uuids) == FALSE

\* _dar_fetch: `if num_uuids == 0: return dict(), set()`
ShortCircuit(num_uuids) == num_uuids = 0

\* the for loop of dar_fetch from position i with uuids = u and
\* combined_result = comb, up to its next await
FetchLoopIn(orders, at, chunk_size, i, u, comb, iss) ==
    IF i > Len(at)
    THEN Finish(comb, u, iss)
    ELSE IF ShortCircuit(Cardinality(u))
    THEN Finish(Append(comb, EmptyDict), {}, iss)
    ELSE IF get_session # {}
    THEN EndCall(Raised(CHOOSE e \in get_session : TRUE), iss, NoHooks, 0)
    ELSE \E order \in orders :
            LET t == FetchTasks(order, chunk_size)
            IN  /\ pc' = "dar_fetch"
                /\ idx' = i
                /\ uuids' = u
                /\ combined_result' = comb
                /\ tasks' = t
                /\ inflight' = { BatchRequest(at[i], t, k) : k \in DOMAIN t }
                /\ waiting' = { BatchRequest(at[i], t, k) :
                                  k \in { j \in DOMAIN t : j > ConnectedAtOnce } }
                /\ issued' = Append(iss, Issued("batch", at[i],
                                  UNION { BatchRequest(at[i], t, k).ids : k \in DOMAIN t },
                                  Len(t)))
                /\ hooks' = NoHooks
                /\ ret' = NoRet
                /\ UNCHANGED << abandoned, abandoned_waiting >>

\* the loop with the identifiers taken in any iteration order of the set
FetchLoop(at, chunk_size, i, u, comb, iss) ==
    FetchLoopIn(Orderings(u), at, chunk_size, i, u, comb, iss)

DarFetch ==
    /\ StartFrame
    /\ \E kind \in { "UUID", "str" }, S \in SUBSET Ids,
          arg \in AddrtypesArgs, chunk_size \in 1..MaxChunkSize :
         LET ids == { << kind, n >> : n \in S }
             at == OrDefault(arg, ALL_ADDRESS_TYPES)
         IN  /\ call' = [op |-> "dar_fetch", uuids |-> ids, addrtypes |-> arg,
                         chunk_size |-> chunk_size]
             /\ addrtypes' = at
             /\ FetchLoop(at, chunk_size, 1, ids, << EmptyDict >>, <<>>)

\* a gather that returns as soon as one coroutine has returned
GatherDone_first(t) == \E k \in DOMAIN t : t[k].done

\* `await gather(*tasks)` returns when every coroutine has returned
GatherDone(t) == \A k \in DOMAIN t : t[k].done

\* a response to one request of the current category arrives
DarFetchResponse ==
    /\ pc = "dar_fetch"
    /\ \E req \in inflight, outcome \in Outcomes :
         LET response == Get(dar_lookup, req, outcome)
             excs == NonChunkedExc(response)
             t == [ tasks EXCEPT ![req.task] =
                      [ uuids |-> @.uuids, done |-> TRUE,
                        result |-> NonChunkedResult(response.body),
                        missing |-> NonChunkedMissing(@.uuids, response.body) ] ]
         IN  \* a request that waits for a connection can only time out
             /\ req \in waiting => outcome = "timeout"
             /\ ResumeFrame(outcome)
             /\ IF excs # {}
                THEN \* the exception leaves gather and dar_fetch at once
                     EndCallLeaving(Raised(CHOOSE e \in excs : TRUE), issued, NoHooks,
                                    Cardinality(inflight) - 1,
                                    Cardinality(waiting \ { req }))
                ELSE IF ~ GatherDone(t)
                THEN /\ tasks' = t
                     /\ inflight' = inflight \ { req }
                     /\ UNCHANGED << abandoned, abandoned_waiting, waiting, pc, idx,
                                     uuids, combined_result, issued, hooks, ret >>
                ELSE LET fetched == FetchResult(Cardinality(uuids), call.chunk_size, t)
                         comb == Append(combined_result, fetched[1])
                         missing == fetched[2]
                     IN  IF missing = {}
                         THEN Finish(comb, missing, issued)
                         ELSE FetchLoop(addrtypes, call.chunk_size, idx + 1, missing,
                                        comb, issued)

\* the caller passes the missing set a dar_fetch has returned to dar_fetch
\* again, with the same category list and chunk size
DarFetchAgain ==
    /\ pc = "done"
    /\ call.op = "dar_fetch"
    /\ ret.kind = "return"
    /\ again' = TRUE
    /\ abandoned <= MaxAbandoned
    /\ warned' = 0
    /\ last_outcome' = "none"
    /\ UNCHANGED << dar_lookup, session, sessions_created, last_lifecycle >>
    /\ LET at == OrDefault(call.addrtypes, ALL_ADDRESS_TYPES)
       IN  /\ call' = [call EXCEPT !.uuids = ret.value.missing]
           /\ addrtypes' = at
           /\ FetchLoop(at, call.chunk_size, 1, ret.value.missing, << EmptyDict >>, <<>>)

\* the caller takes the result of a network call and goes on
Continue ==
    /\ pc = "done"
    /\ pc' = "idle"
    /\ call' = [op |-> "none"]
    /\ addrtypes' = <<>>
    /\ issued' = <<>>
    /\ hooks' = NoHooks
    /\ ret' = NoRet
    /\ last_outcome' = "none"
    /\ again' = FALSE
    /\ UNCHANGED << dar_lookup, session, sessions_created, inflight, abandoned,
                    waiting, abandoned_waiting, idx, uuids, combined_result, tasks,
                    warned, last_lifecycle >>

\* a request nobody awaits any more ends: one that holds a connection with
\* its response or its failure, one that waits for a connection by timing out
AbandonedResponse ==
    /\ \E w \in {0, 1} :
         /\ IF w = 1 THEN abandoned_waiting > 0 ELSE abandoned - abandoned_waiting > 0
         /\ abandoned' = abandoned - 1
         /\ abandoned_waiting' = abandoned_waiting - w
    /\ UNCHANGED << dar_lookup, session, sessions_created, inflight, pc, call,
                    addrtypes, idx, uuids, combined_result, tasks, issued, hooks,
                    ret, warned, last_outcome, last_lifecycle, again, waiting >>

\* a free connection is handed to a request of the running dar_fetch that
\* waits for one
Acquire ==
    /\ pc = "dar_fetch"
    /\ available_connections(InUse) > 0
    /\ \E req \in waiting : waiting' = waiting \ { req }
    /\ UNCHANGED << dar_lookup, session, sessions_created, inflight, abandoned, pc,
                    call, addrtypes, idx, uuids, combined_result, tasks, issued,
                    hooks, ret, warned, last_outcome, last_lifecycle, again,
                    abandoned_waiting >>

\* a free connection is handed to a waiting request nobody awaits any more
AbandonedAcquire ==
    /\ abandoned_waiting > 0
    /\ available_connections(InUse) > 0
    /\ abandoned_waiting' = abandoned_waiting - 1
    /\ UNCHANGED << dar_lookup, session, sessions_created, inflight, abandoned, pc,
                    call, addrtypes, idx, uuids, combined_result, tasks, issued,
                    hooks, ret, warned, last_outcome, last_lifecycle, again,
                    waiting >>

Next ==
    \/ Aopen
    \/ Aclose
    \/ Aenter
    \/ Aexit
    \/ Healthcheck
    \/ HealthcheckResponse
    \/ DarFetchSingle
    \/ DarFetchSingleResponse
    \/ DarFetch
    \/ DarFetchResponse
    \/ DarFetchAgain
    \/ Continue
    \/ AbandonedResponse

Spec == Init /\ [][Next]_vars

(***************************************************************************)
(* The connector under load: a client fetching PoolIds identifiers from one *)
(* category, which with chunk_size 1 starts more chunk requests than the    *)
(* connector has connections.  The identifiers are taken in one iteration   *)
(* order, and the caller starts the next dar_fetch when the requests the    *)
(* last one left behind have ended.  In Spec a call sends at most NumIds   *)
(* requests at once, fewer than the connector has connections, so there no *)
(* request ever waits.                                                     *)
(***************************************************************************)
PoolIdSet == 1..PoolIds

\* the service has a record in 'adresser' for every identifier, or for none
PoolLookups ==
    { [ t \in AddressType |-> IF t = ADDRESS THEN { UUIDOf(n) : n \in S } ELSE {} ] :
        S \in { {}, PoolIdSet } }

PoolInit == InitClient(PoolLookups)

DarFetchMany ==
    /\ StartFrame
    /\ abandoned = 0
    /\ \E kind \in { "UUID", "str" }, chunk_size \in 1..MaxChunkSize :
         LET ids == { << kind, n >> : n \in PoolIdSet }
             arg == ListArg(<< ADDRESS >>)
             at == OrDefault(arg, ALL_ADDRESS_TYPES)
             order == [ n \in PoolIdSet |-> << kind, n >> ]
         IN  /\ call' = [op |-> "dar_fetch", uuids |-> ids, addrtypes |-> arg,
                         chunk_size |-> chunk_size]
             /\ addrtypes' = at
             /\ FetchLoopIn({ order }, at, chunk_size, 1, ids, << EmptyDict >>, <<>>)

PoolNext ==
    \/ Aopen
    \/ DarFetchMany
    \/ DarFetchResponse
    \/ Acquire
    \/ AbandonedAcquire
    \/ AbandonedResponse
    \/ Continue

\* a request that holds a connection is answered or fails (the session's
\* total timeout bounds every request), and the event loop runs a request
\* that a connection has been handed to
PoolFairness ==
    /\ WF_vars(DarFetchResponse)
    /\ WF_vars(Acquire)
    /\ WF_vars(AbandonedAcquire)
    /\ WF_vars(AbandonedResponse)

PoolSpec == PoolInit /\ [][PoolNext]_vars /\ PoolFairness

(***************************************************************************)
(* Properties.                                                             *)
(***************************************************************************)
Failures == { "error_status", "transport_error", "timeout" }

\* the exception a failed request raises in _dar_fetch_single / _dar_fetch_non_chunked
FailureExc(outcome) ==
    CASE outcome = "error_status" -> ClientResponseError(500)
      [] outcome = "transport_error" -> ClientConnectionError
      [] OTHER -> TimeoutError

\* identifier u, in whichever form the caller holds it, has a record in category t
Exists(u, t) == UUID(str(u)) \in dar_lookup[t]

\* the categories the call has sent requests to
Searched == { issued[k].addrtype : k \in DOMAIN issued }

\* the call ended by raising e / by returning v
HasRaised(r, e) == r.kind = "raise" /\ r.exc = { e }
HasReturned(r, v) == r.kind = "return" /\ r.value = v

DarFetchReturned == pc = "done" /\ call.op = "dar_fetch" /\ ret.kind = "return"

SingleEnded == pc = "done" /\ call.op = "dar_fetch_single"

\* C1: when dar_fetch returns for identifiers given as UUID values, the keys of
\* the returned map and the returned missing set are disjoint, together they
\* are the input set, and an identifier is missing exactly when no searched
\* category has a record of it.
C1_ResultPartitionsInput ==
    ( DarFetchReturned /\ \A u \in call.uuids : u[1] = "UUID" ) =>
        LET keys == DOMAIN ret.value.result
            missing == ret.value.missing
        IN  /\ keys \cap missing = {}
            /\ keys \cup missing = call.uuids
            /\ \A u \in call.uuids :
                 u \in missing <=> \A t \in Searched : ~ Exists(u, t)

\* C2: identifiers a category has found are not sent to the next category, so
\* identifiers that exist only in the third of the four categories, fitting
\* one chunk, come back in the map with nothing missing after one request to
\* each of the first three categories and none to the fourth.
C2_FoundNeverQueriedAgain ==
    DarFetchReturned =>
        /\ \A k \in 1..(Len(issued) - 1) :
             issued[k + 1].ids =
                { s \in issued[k].ids : UUID(s) \notin dar_lookup[issued[k].addrtype] }
        /\ ( /\ addrtypes = ALL_ADDRESS_TYPES
             /\ call.uuids # {}
             /\ Cardinality(call.uuids) <= call.chunk_size
             /\ \A u \in call.uuids :
                  \A t \in AddressType : Exists(u, t) <=> t = HISTORIC_ADDRESS )
           => /\ { str(k) : k \in DOMAIN ret.value.result } = { str(u) : u \in call.uuids }
              /\ ret.value.missing = {}
              /\ Len(issued) = 3
              /\ \A k \in 1..3 : issued[k].addrtype = ALL_ADDRESS_TYPES[k]
                                 /\ issued[k].count = 1

\* C3: if the first category has a record of every identifier, dar_fetch
\* sends no request to any later category.
C3_FirstCategoryResolvesAll ==
    ( DarFetchReturned /\ call.uuids # {}
      /\ \A u \in call.uuids : Exists(u, addrtypes[1]) )
    => ( Len(issued) = 1 /\ issued[1].addrtype = addrtypes[1] )

\* C4: a category's fetch of n > 0 identifiers with chunk size c sends one
\* request if n <= c and ceil(n/c) requests otherwise; each request carries
\* between 1 and c identifiers, each identifier is carried by exactly one
\* request, and each category is sent its requests once.
C4_ChunkRequests ==
    pc = "dar_fetch" =>
        LET n == Cardinality(uuids)
            c == call.chunk_size
            count == issued[Len(issued)].count
            pending == { k \in DOMAIN tasks : ~ tasks[k].done }
        IN  /\ n > 0
            /\ n <= c => count = 1
            /\ n > c => ( count * c >= n /\ (count - 1) * c < n )
            /\ Len(tasks) = count
            /\ Len(issued) = idx
            /\ issued[idx].addrtype = addrtypes[idx]
            /\ issued[idx].ids = { str(u) : u \in uuids }
            /\ \A k \in DOMAIN tasks :
                 /\ tasks[k].uuids \subseteq uuids
                 /\ Cardinality(tasks[k].uuids) >= 1
                 /\ Cardinality(tasks[k].uuids) <= c
            /\ \A u \in uuids :
                 Cardinality({ k \in DOMAIN tasks : u \in tasks[k].uuids }) = 1
            /\ Cardinality(inflight) = Cardinality(pending)
            /\ \A k \in pending :
                 \E req \in inflight :
                    /\ req.task = k
                    /\ req.kind = "batch"
                    /\ req.addrtype = addrtypes[idx]
                    /\ req.ids = { str(u) : u \in tasks[k].uuids }
                    /\ Cardinality(req.ids) >= 1
                    /\ Cardinality(req.ids) <= c

\* a category is being fetched in several chunks
C4_Witness ==
    /\ pc = "dar_fetch"
    /\ Cardinality(uuids) > call.chunk_size
    /\ Len(tasks) >= 2
    /\ idx >= 2

\* C5: when a request of dar_fetch fails (transport error, timeout, error
\* status), dar_fetch raises that error at once: it returns no map and no
\* missing set, sends no further request and does not invoke the hook.
C5_ChunkFailureRaises ==
    [][ ( pc = "dar_fetch" /\ last_outcome' \in Failures ) =>
          /\ pc' = "done"
          /\ HasRaised(ret', FailureExc(last_outcome'))
          /\ issued' = issued
          /\ hooks' = NoHooks ]_vars

\* one chunk of several has failed with an error status
C5_Witness ==
    /\ pc = "done"
    /\ call.op = "dar_fetch"
    /\ Cardinality(call.uuids) > call.chunk_size
    /\ last_outcome = "error_status"
    /\ ret.kind = "raise"

\* C6: dar_fetch_single has one request in flight at a time and sends them in
\* list order; it returns on the first category that has the identifier, with
\* that category's record, having invoked the hook once, and sends nothing to
\* the categories after it.
C6_SingleFirstSuccess ==
    /\ pc = "dar_fetch_single" =>
         ( Cardinality(inflight) = 1 /\ Len(issued) = idx /\ hooks = NoHooks )
    /\ ( call.op = "dar_fetch_single" /\ pc \in { "dar_fetch_single", "done" } ) =>
         /\ Len(issued) <= Len(addrtypes)
         /\ \A k \in DOMAIN issued :
              issued[k] = Issued("single", addrtypes[k], { str(call.uuid) }, 1)
         /\ \A k \in 1..(Len(issued) - 1) : ~ Exists(call.uuid, addrtypes[k])
    /\ ( SingleEnded /\ last_outcome = "served"
         /\ Exists(call.uuid, addrtypes[Len(issued)]) ) =>
         LET record == AddressReply(addrtypes[Len(issued)], call.uuid)
         IN  /\ HasReturned(ret, record)
             /\ DOMAIN hooks = { << call.uuid, record >> }
             /\ hooks[<< call.uuid, record >>] = 1
    /\ ( SingleEnded /\ ret.kind = "return" ) =>
         ( last_outcome = "served" /\ Exists(call.uuid, addrtypes[Len(issued)]) )

\* a success after a fallback, with categories left untried
C6_Witness ==
    /\ SingleEnded
    /\ ret.kind = "return"
    /\ Len(issued) >= 2
    /\ Len(issued) < Len(addrtypes)

\* C7: in dar_fetch_single a 404 moves on to the next category; when every
\* category of the list answers 404 the call raises the not-found error, and
\* it raises it only after trying every category once, in order.
C7_SingleNotFound ==
    /\ ( pc = "dar_fetch_single" /\ last_outcome = "served" ) =>
         ( idx >= 2 /\ ~ Exists(call.uuid, addrtypes[idx - 1]) )
    /\ ( SingleEnded /\ last_outcome = "served"
         /\ \A k \in DOMAIN addrtypes : ~ Exists(call.uuid, addrtypes[k]) ) =>
         HasRaised(ret, NotFound)
    /\ ( SingleEnded /\ ret.exc = { NotFound } ) =>
         /\ Len(issued) = Len(addrtypes)
         /\ \A k \in DOMAIN addrtypes :
              /\ issued[k] = Issued("single", addrtypes[k], { str(call.uuid) }, 1)
              /\ ~ Exists(call.uuid, addrtypes[k])

\* not found after all four default categories
C7_Witness ==
    /\ SingleEnded
    /\ call.addrtypes = NoneArg
    /\ HasRaised(ret, NotFound)
    /\ Len(issued) = 4

\* C8: in dar_fetch_single a failure other than a 404 ends the call at once
\* with that error: no further category is tried and the error is not the
\* not-found error.
C8_SingleOtherErrorAborts ==
    [][ ( pc = "dar_fetch_single" /\ last_outcome' \in Failures ) =>
          /\ pc' = "done"
          /\ HasRaised(ret', FailureExc(last_outcome'))
          /\ ret'.exc # { NotFound }
          /\ issued' = issued
          /\ hooks' = NoHooks ]_vars

\* an error status from the second category, with categories left untried
C8_Witness ==
    /\ SingleEnded
    /\ last_outcome = "error_status"
    /\ HasRaised(ret, ClientResponseError(500))
    /\ Len(issued) = 2
    /\ Len(issued) < Len(addrtypes)

\* C9: a network call made while the session is closed (healthcheck,
\* dar_fetch_single, dar_fetch with identifiers) raises "Session not set",
\* sends no request and leaves the session closed.
C9_ClosedSessionRaises ==
    [][ ( /\ pc = "idle"
          /\ pc' # "idle"
          /\ session = None
          /\ call'.op = "dar_fetch" => call'.uuids # {} ) =>
          /\ pc' = "done"
          /\ HasRaised(ret', SessionNotSet)
          /\ issued' = <<>>
          /\ inflight' = {}
          /\ session' = None ]_vars

\* healthcheck on a closed client has raised
C9_Witness ==
    /\ pc = "done"
    /\ call.op = "healthcheck"
    /\ session = None
    /\ HasRaised(ret, SessionNotSet)
    /\ issued = <<>>

\* C10: aopen on an open client warns once, raises nothing and keeps the
\* session object; aclose on a closed client warns once, raises nothing and
\* leaves the client closed; aopen on a closed client and aclose on an open
\* one do not warn.
C10_LifecycleMisuseWarns ==
    [][ /\ Aopen =>
             IF session # None
             THEN warned' = 1 /\ ret'.kind = "return" /\ session' = session
             ELSE warned' = 0 /\ ret'.kind = "return" /\ session' # None
        /\ Aclose =>
             IF session = None
             THEN warned' = 1 /\ ret'.kind = "return" /\ session' = None
             ELSE warned' = 0 /\ ret'.kind = "return" /\ session' = None ]_vars

\* aopen has just warned on the second session object, which is still there
C10_Witness ==
    /\ pc = "idle"
    /\ call.op = "aopen"
    /\ warned = 1
    /\ session = 2

(***************************************************************************)
(* C11: after any sequence of aopen, aclose, __aenter__ and __aexit__ the   *)
(* session is open exactly when the last lifecycle call was an open (aopen  *)
(* or __aenter__); no other step changes the session, so it stays open      *)
(* through the body of a with block; __aexit__ leaves the session closed    *)
(* and returns False, so an exception of the body propagates, whether the   *)
(* body raised or not; and an open on a closed client opens a new session,  *)
(* however many sessions were opened before.                                *)
(***************************************************************************)
SessionOpen == session # None

LifecycleStep == Aopen \/ Aenter \/ Aclose \/ Aexit

C11_SessionFollowsLifecycle ==
    /\ [](SessionOpen <=> last_lifecycle = "open")
    /\ [][ /\ ~LifecycleStep => session' = session
           /\ ((Aopen \/ Aenter) /\ ~SessionOpen) =>
                  (session' # None /\ session' \notin 1..sessions_created)
           /\ Aexit => (session' = None /\ HasReturned(ret', FALSE)) ]_vars

\* the client closed for the second time, by the exit of a with block whose
\* body raised
C11_Witness ==
    /\ pc = "idle"
    /\ call.op = "__aexit__"
    /\ call.exc # {}
    /\ ~SessionOpen
    /\ sessions_created = 2

(***************************************************************************)
(* C12: a healthcheck that found the session open and sent its request has  *)
(* returned, never raised: True when the response came with status 200,     *)
(* False for any other status, for a timeout and for a client or connection *)
(* error; and no step of a healthcheck changes the session, which is still  *)
(* open when the call has ended.                                            *)
(***************************************************************************)
HealthcheckEnded == pc = "done" /\ call.op = "healthcheck"

C12_HealthcheckNeverRaises ==
    /\ []((HealthcheckEnded /\ issued # <<>>) =>
             /\ SessionOpen
             /\ HasReturned(ret, last_outcome = "served"))
    /\ [][ (Healthcheck \/ HealthcheckResponse) => session' = session ]_vars

\* a healthcheck whose request timed out has returned False
C12_Witness ==
    /\ HealthcheckEnded
    /\ SessionOpen
    /\ last_outcome = "timeout"
    /\ HasReturned(ret, FALSE)

(***************************************************************************)
(* C13: the categories a dar_fetch or dar_fetch_single queries are those of *)
(* the list it was given: with an explicitly empty list it queries none,    *)
(* and with None it queries the four categories in their canonical order    *)
(* (as far as the search gets).                                             *)
(***************************************************************************)
FetchEnded == pc = "done" /\ call.op \in {"dar_fetch", "dar_fetch_single"}

C13_EmptyListSearchesNothing ==
    FetchEnded =>
        /\ call.addrtypes = ListArg(<<>>) => issued = <<>>
        /\ call.addrtypes = NoneArg =>
               \A k \in DOMAIN issued : issued[k].addrtype = ALL_ADDRESS_TYPES[k]

(***************************************************************************)
(* C14: a dar_fetch called with the empty set of identifiers has returned   *)
(* the empty map and the empty missing set, has sent no request and has     *)
(* invoked no hook, whatever its category list and chunk size, and whether  *)
(* the session is open or not.                                              *)
(***************************************************************************)
C14_EmptyInputNoRequests ==
    (pc = "done" /\ call.op = "dar_fetch" /\ call.uuids = {}) =>
        /\ HasReturned(ret, [result |-> EmptyDict, missing |-> {}])
        /\ issued = <<>>
        /\ hooks = NoHooks
        /\ inflight = {}

\* the empty set fetched with an explicit category list and chunk size 2
C14_Witness ==
    /\ pc = "done"
    /\ call.op = "dar_fetch"
    /\ call.uuids = {}
    /\ call.addrtypes = ListArg(<< HISTORIC_ADDRESS >>)
    /\ call.chunk_size = 2
    /\ SessionOpen
    /\ ret.kind = "return"

(***************************************************************************)
(* C15: constructing a client with the default arguments succeeds, and the  *)
(* client it yields is closed: its session is absent until aopen.           *)
(***************************************************************************)
C15_ConstructionSucceeds ==
    (call.op = "__init__" /\ call.class_attributes = {}) =>
        /\ ret.kind = "return"
        /\ pc = "idle"
        /\ ~SessionOpen

(***************************************************************************)
(* C16: dar_fetch is idempotent on its missing set: when the missing set a  *)
(* dar_fetch returned is passed to dar_fetch again, with the same category  *)
(* list and against the same address tables, the second call returns the    *)
(* empty map and, as its missing set, the set it was given.                 *)
(***************************************************************************)
C16_IdempotentOnMissing ==
    (DarFetchReturned /\ again) =>
        /\ ret.value.result = EmptyDict
        /\ ret.value.missing = call.uuids

(***************************************************************************)
(* C17: the record dar_fetch returns for an identifier is the record of the *)
(* earliest category of the search that found it, also when later           *)
(* categories of the search found it too; and once a record is in the       *)
(* combined result, no later merge and not the final one changes it.        *)
(***************************************************************************)
\* the positions in the search at which the identifier of key k was queried
\* and found
FoundAt(k) ==
    { i \in DOMAIN issued : k \in issued[i].ids /\ Exists(k, issued[i].addrtype) }

Earliest(S) == CHOOSE i \in S : \A j \in S : i <= j

C17_EarliestCategoryWins ==
    /\ [](DarFetchReturned =>
             \A k \in DOMAIN ret.value.result :
                 /\ FoundAt(k) # {}
                 /\ ret.value.result[k] =
                        AddressReply(issued[Earliest(FoundAt(k))].addrtype, k))
    /\ [][ (pc = "dar_fetch" /\ DarFetchResponse) =>
             \A k \in DOMAIN ChainMapDict(combined_result) :
                 /\ pc' = "dar_fetch" =>
                        /\ k \in DOMAIN ChainMapDict(combined_result')
                        /\ ChainMapDict(combined_result')[k] =
                               ChainMapDict(combined_result)[k]
                 /\ (pc' = "done" /\ ret'.kind = "return") =>
                        /\ k \in DOMAIN ret'.value.result
                        /\ ret'.value.result[k] = ChainMapDict(combined_result)[k] ]_vars

\* a returned record of an identifier that two categories of the search found
C17_Witness ==
    /\ DarFetchReturned
    /\ \E k \in DOMAIN ret.value.result : Cardinality(FoundAt(k)) >= 2

(***************************************************************************)
(* C18: dar_fetch takes its categories strictly one after the other: the    *)
(* requests in flight for a dar_fetch all belong to its current category,   *)
(* and the requests of the next category are sent only in the step in which *)
(* the last outstanding chunk request of the current one is answered;       *)
(* within a category the chunk requests are in flight together: all are     *)
(* sent in one step, and each stays in flight until its own response.       *)
(***************************************************************************)
Outstanding == { k \in DOMAIN tasks : ~ tasks[k].done }

C18_CategoriesSequential ==
    /\ [](pc = "dar_fetch" =>
             /\ idx = Len(issued)
             /\ \A req \in inflight : req.addrtype = addrtypes[idx]
             /\ { req.task : req \in inflight } = Outstanding
             /\ Outstanding # {})
    /\ [][ (pc = "dar_fetch" /\ Len(issued') > Len(issued)) =>
             /\ Cardinality(Outstanding) = 1
             /\ Len(issued') = Len(issued) + 1
             /\ issued'[Len(issued')].addrtype = addrtypes[idx + 1]
             /\ Cardinality(inflight') = issued'[Len(issued')].count
             /\ Cardinality(inflight') = Len(tasks') ]_vars

\* the second category of a search with two chunk requests in flight
C18_Witness ==
    /\ pc = "dar_fetch"
    /\ idx = 2
    /\ Cardinality(inflight) = 2
    /\ Len(tasks) = 2

(***************************************************************************)
(* C19: in a chunked fetch of one category, in whatever order the chunk     *)
(* requests are answered: the maps of the answered chunks have pairwise     *)
(* disjoint key sets, the missing set of an answered chunk is the chunk's   *)
(* identifiers minus the identifiers present in the chunk's response, and   *)
(* when the last chunk is answered the category's map is the union of the   *)
(* chunks' maps and its missing set the union of the chunks' missing sets.  *)
(***************************************************************************)
Chunked == pc = "dar_fetch" /\ Len(tasks) > 1

\* the identifiers of a chunk that are present in the response `result`
PresentIn(chunk, result) == { u \in chunk : str(u) \in DOMAIN result }

\* the union of maps with pairwise disjoint key sets
UnionOfMaps(maps) ==
    [ k \in UNION { DOMAIN maps[i] : i \in DOMAIN maps } |->
        maps[CHOOSE i \in DOMAIN maps : k \in DOMAIN maps[i]][k] ]

\* the response the service gives to the request of chunk k
ChunkBody(k) ==
    address_endpoint(dar_lookup, addrtypes[idx],
                     BatchRequest(addrtypes[idx], tasks, k).ids).body

\* the map and the missing set of chunk k once it is answered
ChunkMap(k) ==
    IF tasks[k].done THEN tasks[k].result
    ELSE [ key \in { addr.id : addr \in ChunkBody(k) } |->
             CHOOSE addr \in ChunkBody(k) : addr.id = key ]

ChunkMissing(k) == tasks[k].uuids \ PresentIn(tasks[k].uuids, ChunkMap(k))

C19_MergeIndependentOfOrder ==
    /\ [](Chunked =>
             /\ \A j, k \in DOMAIN tasks :
                    j # k => DOMAIN tasks[j].result \cap DOMAIN tasks[k].result = {}
             /\ \A k \in DOMAIN tasks :
                    tasks[k].done => tasks[k].missing = ChunkMissing(k))
    /\ [][ (Chunked /\ Cardinality(Outstanding) = 1 /\ last_outcome' = "served"
               /\ DarFetchResponse) =>
             LET merged == UnionOfMaps([ k \in DOMAIN tasks |-> ChunkMap(k) ])
                 missing == UNION { ChunkMissing(k) : k \in DOMAIN tasks }
             IN  /\ pc' = "dar_fetch" =>
                        /\ combined_result' = Append(combined_result, merged)
                        /\ uuids' = missing
                 /\ pc' = "done" =>
                        /\ HasReturned(ret', [result |->
                                 ChainMapDict(Append(combined_result, merged)),
                               missing |-> missing]) ]_vars

(***************************************************************************)
(* C20: while a dar_fetch is fetching, the hook _address_fetched has not    *)
(* been invoked; when the dar_fetch has returned, no request of it is in    *)
(* flight, the hook has been invoked exactly once for each entry of the     *)
(* returned map (with the entry's key and record, so the map returned is    *)
(* the one the hook was fed from) and for nothing else, and no invocation   *)
(* was for an identifier that is in the returned missing set.               *)
(***************************************************************************)
SameIdentifier(a, b) == UUID(str(a)) = UUID(str(b))

C20_HookOncePerFound ==
    /\ pc = "dar_fetch" => hooks = NoHooks
    /\ DarFetchReturned =>
          /\ inflight = {}
          /\ DOMAIN hooks =
                { << k, ret.value.result[k] >> : k \in DOMAIN ret.value.result }
          /\ \A item \in DOMAIN hooks : hooks[item] = 1
          /\ \A item \in DOMAIN hooks :
                \A m \in ret.value.missing : ~ SameIdentifier(item[1], m)

(***************************************************************************)
(* C21: on a session opened by aopen the requests that hold a connection,   *)
(* those of the running call and those no call awaits any more, are never   *)
(* more than the connector's limit of 10: a dar_fetch that starts more      *)
(* chunk requests than that sends the first 10 and lets the others wait for *)
(* a free connection; and whenever chunk requests wait, a moment comes at   *)
(* which every request that was started has ended and none is left in       *)
(* flight or waiting.                                                       *)
(***************************************************************************)
NothingInFlight == inflight = {} /\ abandoned = 0

C21_AtMostTenInFlight ==
    /\ [](/\ InUse <= ConnectorLimit
          /\ waiting \subseteq inflight
          /\ abandoned_waiting <= abandoned)
    /\ [][ (DarFetchMany /\ pc' = "dar_fetch") =>
             Cardinality(inflight' \ waiting') =
                IF Len(tasks') <= ConnectorLimit THEN Len(tasks') ELSE ConnectorLimit ]_vars
    /\ ((pc = "dar_fetch" /\ waiting # {}) ~> NothingInFlight)

\* of more chunk requests than the connector has connections, the last one
\* started has waited, got a connection and been answered, while others are
\* still in flight
C21_Witness ==
    /\ pc = "dar_fetch"
    /\ Len(tasks) > ConnectorLimit
    /\ tasks[Len(tasks)].done
    /\ inflight # {}
    /\ waiting = {}

(***************************************************************************)
(* C22: when a dar_fetch has completed, by returning or by raising, no      *)
(* request it started is still in flight; hence whenever the caller closes  *)
(* the session (aclose or the exit of a with block) after its calls have    *)
(* completed, no request is in flight on the session.                       *)
(***************************************************************************)
DarFetchCompleted == pc = "done" /\ call.op = "dar_fetch"

C22_NothingInFlightAfterFetch ==
    /\ [](DarFetchCompleted => (inflight = {} /\ abandoned = 0))
    /\ [][ (Aclose \/ Aexit) => abandoned = 0 ]_vars

====
